---- MODULE Spec2Model ----
(***************************************************************************)
(* Mancalearn: the Kalah board engine (gameplay.py), the players           *)
(* (non_ai_players.py, reinforcement_player.py) and the game loop          *)
(* (main_game.py: run_game).                                               *)
(*                                                                         *)
(* A board is a function 0..13 -> Nat, indexed as in gameplay.py:          *)
(*      12  11  10  9   8   7                                              *)
(*   13                        6                                           *)
(*      0   1   2   3   4   5                                              *)
(***************************************************************************)
EXTENDS Integers, Sequences, FiniteSets, TLC

VARIABLES
    board,       \* run_game: board / the board an engine function is given
    to_move,     \* run_game: the player that should move next
    move_no,     \* run_game: number of moves executed in the current game
    done,        \* run_game: whether the game is over (result of game_over)
    game_no,     \* run_game: index of the for-loop over num_games
    scores,      \* run_game: list of game_scores, one per completed game
    players,     \* run_game: <<kind of p1, kind of p2>>
    board_type,  \* run_game: the layout name given to gen_new_board
    steps,       \* decisions taken so far in the run (exploration cap)
    pc,          \* position in run_game / in the engine call
    last,        \* the last call of gameplay.move: arguments and results
    decision,    \* the plot a player's move() reported
    parsed,      \* the value text_to_board returned
    use_random,  \* ReinforcementPlayer.move: whether the random branch was taken
    engine_calls,\* the calls of gameplay.move made by the last decision
    as_list,     \* whether board is a Python list (not a numpy array)
    rewards,     \* the rewards _reward returned
    report,      \* the tuple ReinforcementPlayer.move returned
    flipped,     \* the value flip_board returned
    player_no,   \* ReinforcementPlayer.player_no
    cfg,         \* ReinforcementPlayer: the hyperparameters set by __init__
    memory_buffer, \* ReinforcementPlayer.memory_buffer
    time,        \* ReinforcementPlayer.time
    epsilon,     \* ReinforcementPlayer.epsilon, in thousandths
    learn_steps, \* number of calls of _agent_learn so far
    appended,    \* number of appends to memory_buffer so far
    decays,      \* number of calls of update_epsilon so far
    q_network,   \* ReinforcementPlayer.q_network: its weights
    target_q_network, \* ReinforcementPlayer.target_q_network: its weights
    sample_pool, \* the transitions random.sample drew from in the last decision
    epsilons     \* run_game: epsilon of the agent in each seat, in thousandths

\* what a decision in run_game records besides its result
decVars == <<use_random, engine_calls, as_list>>

\* results of single calls
probeVars == <<rewards, report, flipped>>

\* the state of one ReinforcementPlayer
agentVars == <<player_no, cfg, memory_buffer, time, epsilon, learn_steps,
               appended, decays>>

\* the estimators of one ReinforcementPlayer, and the agents of run_game
learnVars == <<q_network, target_q_network, sample_pool, epsilons>>

vars == <<board, to_move, move_no, done, game_no, scores, players,
          board_type, steps, pc, last, decision, parsed,
          decVars, probeVars, agentVars, learnVars>>

----------------------------------------------------------------------------
(* Bounds of the exploration *)

\* largest pile put on one plot of an engine input board
MaxSeeds == 28
\* decisions explored from the 'new' and 'instawin' layouts
MaxSteps == 3
\* decisions explored from the 'fast' layout (long enough to finish a game)
MaxStepsFast == 7
\* num_games given to run_game
NumGames == 1
\* buffer_size of the agent of AgentSpec
BufferSize == 2
\* minibatch_size of the agent of AgentSpec
MinibatchSize == 1
\* largest steps_per_update of the agent of AgentSpec
StepsPerUpdate == 2
\* decisions one agent takes in AgentSpec
MaxTime == 3
\* calls of update_epsilon in AgentSpec
MaxDecays == 1
\* size of one gradient step on the weights in AgentSpec
GradStep == 1000

----------------------------------------------------------------------------
(* gameplay.py *)

Idx == 0..13

RECURSIVE SumRange(_, _, _)
\* Python's sum(board[lo:hi+1])
SumRange(b, lo, hi) == IF lo > hi THEN 0 ELSE b[lo] + SumRange(b, lo + 1, hi)

\* np.array literal: the k-th element of a 14-tuple is index k-1
FromTuple(t) == [i \in Idx |-> t[i + 1]]

gen_new_board(type) ==
    IF type = "new" THEN FromTuple(<<4, 4, 4, 4, 4, 4, 0, 4, 4, 4, 4, 4, 4, 0>>)
    ELSE IF type = "fast" THEN FromTuple(<<1, 1, 1, 1, 1, 1, 0, 1, 1, 1, 1, 1, 1, 0>>)
    ELSE FromTuple(<<6, 5, 4, 3, 2, 1, 0, 4, 4, 4, 4, 4, 4, 0>>)

BoardTypes == {"new", "fast", "instawin"}

RECURSIVE SowLoop(_, _, _, _, _, _)
\* the for-loop of move: i runs over start+1 .. start+seeds; `landed` is the
\* index that received the latest seed (-1 while none was sown)
SowLoop(b, player, i, end, passed_opp_store, landed) ==
    IF i > end
    THEN [board |-> b, passed_opp_store |-> passed_opp_store, landed |-> landed]
    ELSE LET passed == IF (player = 1 /\ i = 13) \/ (player = 2 /\ i = 6)
                       THEN passed_opp_store + 1 ELSE passed_opp_store
             at == (i + passed) % 14
         IN  SowLoop([b EXCEPT ![at] = @ + 1], player, i + 1, end, passed, at)

\* variant of Capture that forgets the landing seed
CaptureNoLanding(b, store, stop) ==
    LET b1 == [b EXCEPT ![store] = @ + b[12 - stop]]
        b2 == [b1 EXCEPT ![stop] = 0]
    IN  [b2 EXCEPT ![12 - stop] = 0]

\* variant of Capture that leaves the captured seeds on the opposite plot
CaptureKeepsOpposite(b, store, stop) ==
    LET b1 == [b EXCEPT ![store] = @ + b[12 - stop] + 1]
    IN  [b1 EXCEPT ![stop] = 0]

\* variant of Capture that credits the capture to the other store
CaptureToOpponent(b, store, stop) ==
    LET b1 == [b EXCEPT ![19 - store] = @ + b[12 - stop] + 1]
        b2 == [b1 EXCEPT ![stop] = 0]
    IN  [b2 EXCEPT ![12 - stop] = 0]

\* the capture assignments of move, in program order
Capture(b, store, stop) ==
    LET b1 == [b EXCEPT ![store] = @ + b[12 - stop] + 1]
        b2 == [b1 EXCEPT ![stop] = 0]
    IN  [b2 EXCEPT ![12 - stop] = 0]

\* variant of P1Captures that also captures from an empty opposite plot
P1CapturesEmpty(b, player, stop) ==
    player = 1 /\ stop < 6 /\ b[stop] = 1 /\ b[12 - stop] >= 0

P1Captures(b, player, stop) ==
    player = 1 /\ stop < 6 /\ b[stop] = 1 /\ b[12 - stop] > 0

P2Captures(b, player, stop) ==
    player = 2 /\ 6 < stop /\ stop < 13 /\ b[stop] = 1 /\ b[12 - stop] > 0

NextPlayer(player, stop) ==
    LET np0 == 3 - player
        np1 == IF player = 1 /\ stop = 6 THEN 1 ELSE np0
    IN  IF player = 2 /\ stop = 13 THEN 2 ELSE np1

\* variant of StopIndex that ignores the skipped store
StopIndexNoSkip(start, seeds, passed_opp_store) ==
    (start + seeds) % 14

\* variant of StopIndex that is one plot ahead
StopIndexAhead(start, seeds, passed_opp_store) ==
    (start + seeds + passed_opp_store + 1) % 14

\* stop = (start + seeds + passed_opp_store) % 14
StopIndex(start, seeds, passed_opp_store) ==
    (start + seeds + passed_opp_store) % 14

\* variant of IllegalPlot that lets plot 13 through
IllegalPlotLoose(start) == start < 0 \/ start > 13 \/ start = 6

IllegalPlot(start) == start < 0 \/ start >= 13 \/ start = 6

InvalidPlayer(player) == player \notin {1, 2}

NoBoard == << >>

\* gameplay.move; besides (new_board, new_player) the record keeps the
\* arguments, the board after the sowing loop, stop and the landing index
move(b, player, start) ==
    IF IllegalPlot(start) \/ InvalidPlayer(player)
    THEN [raised |-> TRUE, board |-> b, player |-> player, start |-> start,
          seeds |-> 0, sown |-> NoBoard, landed |-> -1, stop |-> -1,
          new_board |-> NoBoard, new_player |-> 0]
    ELSE
    LET seeds == b[start]
        loop  == SowLoop([b EXCEPT ![start] = 0], player, start + 1,
                         start + seeds, 0, -1)
        stop  == StopIndex(start, seeds, loop.passed_opp_store)
        nb1   == IF P1Captures(loop.board, player, stop)
                 THEN Capture(loop.board, 6, stop) ELSE loop.board
        nb2   == IF P2Captures(nb1, player, stop)
                 THEN Capture(nb1, 13, stop) ELSE nb1
    IN  [raised |-> FALSE, board |-> b, player |-> player, start |-> start,
         seeds |-> seeds, sown |-> loop.board, landed |-> loop.landed,
         stop |-> stop, new_board |-> nb2,
         new_player |-> NextPlayer(player, stop)]

NoReport == [new_board |-> NoBoard, decision |-> -1, next_player |-> 0,
             done |-> FALSE]

NoCfg == [buffer_size |-> 0, steps_per_update |-> 0, minibatch_size |-> 0,
          epsilon |-> 0, e_decay |-> 0, e_min |-> 0, invalid_reward |-> 0,
          tau |-> 0]

\* no decision taken, no single call made, no agent constructed
NoDecision == use_random = FALSE /\ engine_calls = {} /\ as_list = FALSE

NoProbe == rewards = << >> /\ report = NoReport /\ flipped = NoBoard

NoAgent ==
    /\ player_no = 0
    /\ cfg = NoCfg
    /\ memory_buffer = << >>
    /\ time = 0
    /\ epsilon = 0
    /\ learn_steps = 0
    /\ appended = 0
    /\ decays = 0
    /\ q_network = 0
    /\ target_q_network = 0
    /\ sample_pool = {}

\* no agent sits in run_game
NoSeats == epsilons = <<-1, -1>>

\* the arguments of one call of gameplay.move
EngineCall(m) == [player |-> m.player, start |-> m.start, seeds |-> m.seeds]

NoCall == [raised |-> FALSE, board |-> NoBoard, player |-> 0, start |-> -1,
           seeds |-> 0, sown |-> NoBoard, landed |-> -1, stop |-> -1,
           new_board |-> NoBoard, new_player |-> 0]

\* any(board[:6]) / any(board[7:13])
AnySeeds(b, lo, hi) == \E i \in lo..hi : b[i] # 0

\* variant of game_over that needs both sides empty
game_over_both(b) == ~AnySeeds(b, 0, 5) /\ ~AnySeeds(b, 7, 12)

game_over(b) == ~AnySeeds(b, 0, 5) \/ ~AnySeeds(b, 7, 12)

\* variant of calc_final_score that counts the stores only (gameplay.score)
calc_final_score_stores(b) == <<b[6], b[13]>>

calc_final_score(b) == <<SumRange(b, 0, 6), SumRange(b, 7, 13)>>

player_range(no) == IF no = 1 THEN 0..5 ELSE 7..12

----------------------------------------------------------------------------
(* gameplay.display and gameplay.text_to_board; a line of text is a       *)
(* sequence of one-character strings                                       *)

Digits == <<"0", "1", "2", "3", "4", "5", "6", "7", "8", "9">>

RECURSIVE Str(_)
\* Python's str(x) of a non-negative integer
Str(x) == IF x < 10 THEN <<Digits[x + 1]>>
          ELSE Str(x \div 10) \o <<Digits[(x % 10) + 1]>>

RECURSIVE Repeat(_, _)
Repeat(c, n) == IF n = 0 THEN << >> ELSE <<c>> \o Repeat(c, n - 1)

\* b_string: one-digit numbers are padded with a blank
b_string(b) == [i \in Idx |-> IF b[i] < 10 THEN Str(b[i]) \o <<" ">> ELSE Str(b[i])]

RECURSIVE Join(_, _)
\* sep.join(list)
Join(sep, list) ==
    IF Len(list) = 0 THEN << >>
    ELSE IF Len(list) = 1 THEN list[1]
    ELSE list[1] \o sep \o Join(sep, Tail(list))

\* the five lines display(board) prints
display(b) ==
    LET s == b_string(b)
        top == <<s[12], s[11], s[10], s[9], s[8], s[7]>>
        bottom == <<s[0], s[1], s[2], s[3], s[4], s[5]>>
    IN  << Repeat("#", 33),
           <<"#">> \o Repeat(" ", 5) \o Join(<<" ", " ">>, top) \o Repeat(" ", 4) \o <<"#">>,
           <<"#", " ", " ">> \o s[13] \o Repeat(" ", 24) \o s[6] \o <<" ", "#">>,
           <<"#">> \o Repeat(" ", 5) \o Join(<<" ", " ">>, bottom) \o Repeat(" ", 4) \o <<"#">>,
           Repeat("#", 33) >>

RECURSIVE ReadRows(_, _)
\* the input loop of text_to_board: rows up to the first empty line
ReadRows(lines, i) ==
    IF i > Len(lines) \/ lines[i] = << >> THEN << >>
    ELSE <<lines[i]>> \o ReadRows(lines, i + 1)

RECURSIVE Split(_, _, _)
\* r.split(' ')
Split(r, i, cur) ==
    IF i > Len(r) THEN <<cur>>
    ELSE IF r[i] = " " THEN <<cur>> \o Split(r, i + 1, << >>)
    ELSE Split(r, i + 1, Append(cur, r[i]))

\* [x for x in r.split(' ') if x not in {'', '#'}]
Tokens(r) == SelectSeq(Split(r, 1, << >>), LAMBDA x : x # << >> /\ x # <<"#">>)

DigitVal(c) == CHOOSE d \in 0..9 : Digits[d + 1] = c

RECURSIVE ParseInt(_, _, _)
\* int(x) of a string of decimal digits
ParseInt(x, i, acc) ==
    IF i > Len(x) THEN acc ELSE ParseInt(x, i + 1, acc * 10 + DigitVal(x[i]))

\* text_to_board, fed the given lines on its input
text_to_board(lines) ==
    LET rows == ReadRows(lines, 1)
        toks == [k \in 1..Len(rows) |-> Tokens(rows[k])]
        inner == SubSeq(toks, 2, Len(toks) - 1)
        numbers == [k \in 1..Len(inner) |->
                      [j \in 1..Len(inner[k]) |-> ParseInt(inner[k][j], 1, 0)]]
    IN  FromTuple(numbers[1] \o <<numbers[2][1]>> \o numbers[3] \o <<numbers[2][2]>>)

----------------------------------------------------------------------------
(* reinforcement_player.py: board orientation *)

\* variant of flip_board that rolls by 6
flip_board_6(b) == [i \in Idx |-> b[(i - 6) % 14]]

\* np.roll(board, 7)
flip_board(b) == [i \in Idx |-> b[(i - 7) % 14]]

\* kwargs.get('invalid_reward', -100)
DefaultInvalidReward == -100

\* move_to_state: the flag appended to the board
move_again_of(m) == 2 - m.new_player

\* row_before == 0: elementwise on a numpy array; a Python list compared
\* with 0 is False, and indexing with False selects nothing
RowIsEmpty(b, list, i) == IF list THEN FALSE ELSE b[i] = 0

\* hit_bank
hit_bank(b, i) == b[i] = 6 - i

\* bank_gains
bank_gains(b, i) == move(b, 1, i).new_board[6] - b[6]

\* _reward: possible_rewards, built by its four assignments in order
possible_rewards(b, list, invalid_reward) ==
    LET r0 == [i \in 0..5 |-> -1]
        r1 == [i \in 0..5 |-> IF RowIsEmpty(b, list, i) THEN invalid_reward
                               ELSE r0[i]]
        r2 == [i \in 0..5 |-> IF r1[i] = -1 /\ hit_bank(b, i) THEN 2 ELSE r1[i]]
    IN  [i \in 0..5 |-> IF r2[i] = -1 THEN bank_gains(b, i) ELSE r2[i]]

\* ReinforcementPlayer.move after the decision is taken: `b_in` is the board
\* it was given (a list or an array), `d` the canonical plot decided on
LearnedStep(b_in, list, no, d, invalid_reward) ==
    LET b == IF no = 2 THEN flip_board(b_in) ELSE b_in
        b_list == list /\ no # 2
        m == move(b, 1, d)
        move_again == move_again_of(m)
        next_state == m.new_board
    IN  [state |-> b, action |-> d,
         reward |-> possible_rewards(b, b_list, invalid_reward)[d],
         next_state |-> next_state,
         done |-> game_over(next_state),
         call |-> m,
         new_board |-> IF no = 2 THEN flip_board(next_state) ELSE next_state,
         decision |-> IF no = 2 THEN d + 7 ELSE d,
         next_player |-> IF move_again = 1 THEN no ELSE 3 - no]

\* what move() returns
Reported(st) == [new_board |-> st.new_board, decision |-> st.decision,
                 next_player |-> st.next_player, done |-> st.done]

\* variant of DequeAppend that refuses the new element when full
DequeAppendKeepOld(buf, x, maxlen) ==
    IF Len(buf) >= maxlen THEN buf ELSE Append(buf, x)

\* deque(maxlen=...).append(x)
DequeAppend(buf, x, maxlen) ==
    LET a == Append(buf, x)
    IN  IF Len(a) > maxlen THEN SubSeq(a, Len(a) - maxlen + 1, Len(a)) ELSE a

\* variant of LearnDue that tests the counter before the decision
LearnDueEarly(t, len, c) ==
    t % c.steps_per_update = 0 /\ len > c.minibatch_size

\* the condition guarding _agent_learn
LearnDue(t, len, c) ==
    (t + 1) % c.steps_per_update = 0 /\ len > c.minibatch_size

Max(a, b) == IF a >= b THEN a ELSE b

\* variant of update_epsilon without the floor
update_epsilon_nofloor(eps, c) == (eps * c.e_decay) \div 1000

\* update_epsilon, epsilon and e_decay in thousandths
update_epsilon(eps, c) == Max(c.e_min, (eps * c.e_decay) \div 1000)

\* kwargs.get('tau', 1e-3), in thousandths
DefaultTau == 1

\* optimizer.apply_gradients: the change of the online weights, taken as one
\* step whatever the sampled minibatch
Gradients == {GradStep}

\* variant of soft_update that copies the online weights
soft_update_copy(q, t, tau) == q

\* the assignment to target_weights in _agent_learn, tau in thousandths
soft_update(q, t, tau) == (tau * q + (1000 - tau) * t) \div 1000

\* the weights read from the file by load_weights
LoadedWeights == 5 * GradStep

\* the hyperparameters of an agent built by create_player; run_game is
\* given agents with loaded weights, whose epsilon load_weights set to e_min
SeatCfg ==
    [buffer_size |-> 100000, steps_per_update |-> 4, minibatch_size |-> 64,
     epsilon |-> 1000, e_decay |-> 995, e_min |-> 10,
     invalid_reward |-> DefaultInvalidReward, tau |-> DefaultTau]

----------------------------------------------------------------------------
(* EngineSpec: the engine's functions applied to input boards.  An input   *)
(* board is one of the backgrounds with one slot overridden by a pile.     *)

ZeroBoard == [i \in Idx |-> 0]

\* the capture example: plots 0 and 5 empty on the standard board
CaptureBoard == FromTuple(<<0, 4, 4, 4, 4, 0, 0, 4, 4, 4, 4, 4, 4, 0>>)

Backgrounds == {gen_new_board(t) : t \in BoardTypes} \cup {ZeroBoard, CaptureBoard}

EngineBoards == {[bg EXCEPT ![p] = s] : bg \in Backgrounds, p \in Idx, s \in 0..MaxSeeds}

EngineInit ==
    /\ board \in EngineBoards
    /\ pc = "call"
    /\ last = NoCall
    /\ to_move = 0
    /\ move_no = 0
    /\ done = FALSE
    /\ game_no = 0
    /\ scores = << >>
    /\ players = <<"none", "none">>
    /\ board_type = "none"
    /\ steps = 0
    /\ decision = -1
    /\ parsed = NoBoard
    /\ NoDecision
    /\ NoProbe
    /\ NoAgent
    /\ NoSeats

\* gameplay.move(board, player, start), any arguments
EngineMove ==
    /\ pc = "call"
    /\ \E player \in 0..3, start \in -1..14 :
          last' = move(board, player, start)
    /\ pc' = "move"
    /\ UNCHANGED <<decVars, probeVars, agentVars>>
    /\ UNCHANGED learnVars
    /\ UNCHANGED <<board, to_move, move_no, done, game_no, scores, players,
                   board_type, steps, decision, parsed>>

\* gameplay.game_over(board)
EngineGameOver ==
    /\ pc = "call"
    /\ done' = game_over(board)
    /\ pc' = "game_over"
    /\ UNCHANGED <<decVars, probeVars, agentVars>>
    /\ UNCHANGED learnVars
    /\ UNCHANGED <<board, to_move, move_no, game_no, scores, players,
                   board_type, steps, last, decision, parsed>>

\* gameplay.calc_final_score(board)
EngineFinalScore ==
    /\ pc = "call"
    /\ scores' = <<calc_final_score(board)>>
    /\ pc' = "calc_final_score"
    /\ UNCHANGED <<decVars, probeVars, agentVars>>
    /\ UNCHANGED learnVars
    /\ UNCHANGED <<board, to_move, move_no, done, game_no, players,
                   board_type, steps, last, decision, parsed>>

\* display(board), its output pasted into text_to_board with a closing
\* empty line
EngineTextToBoard ==
    /\ pc = "call"
    /\ parsed' = text_to_board(display(board) \o << << >> >>)
    /\ pc' = "text_to_board"
    /\ UNCHANGED <<decVars, probeVars, agentVars>>
    /\ UNCHANGED learnVars
    /\ UNCHANGED <<board, to_move, move_no, done, game_no, scores, players,
                   board_type, steps, last, decision>>

\* ReinforcementPlayer.flip_board(board)
EngineFlip ==
    /\ pc = "call"
    /\ flipped' = flip_board(board)
    /\ pc' = "flip_board"
    /\ UNCHANGED <<decVars, rewards, report, agentVars>>
    /\ UNCHANGED learnVars
    /\ UNCHANGED <<board, to_move, move_no, done, game_no, scores, players,
                   board_type, steps, last, decision, parsed>>

\* ReinforcementPlayer._reward(board) of a default agent, the board being a
\* numpy array or a Python list
EngineReward ==
    /\ pc = "call"
    /\ \E list \in BOOLEAN :
          /\ rewards' = possible_rewards(board, list, DefaultInvalidReward)
          /\ as_list' = list
    /\ pc' = "_reward"
    /\ UNCHANGED <<use_random, engine_calls, report, flipped, agentVars>>
    /\ UNCHANGED learnVars
    /\ UNCHANGED <<board, to_move, move_no, done, game_no, scores, players,
                   board_type, steps, last, decision, parsed>>

\* ReinforcementPlayer(no).move(board) deciding on canonical plot d
EngineLearnedMove ==
    /\ pc = "call"
    /\ \E no \in {1, 2}, d \in 0..5 :
       \E st \in {LearnedStep(board, FALSE, no, d, DefaultInvalidReward)} :
          /\ player_no' = no
          /\ report' = Reported(st)
          /\ decision' = st.decision
          /\ last' = st.call
    /\ pc' = "learned_move"
    /\ UNCHANGED <<decVars, rewards, flipped>>
    /\ UNCHANGED learnVars
    /\ UNCHANGED <<cfg, memory_buffer, time, epsilon, learn_steps, appended,
                   decays>>
    /\ UNCHANGED <<board, to_move, move_no, done, game_no, scores, players,
                   board_type, steps, parsed>>

EngineNext ==
    \/ EngineMove
    \/ EngineGameOver
    \/ EngineFinalScore
    \/ EngineTextToBoard
    \/ EngineFlip
    \/ EngineReward
    \/ EngineLearnedMove

EngineSpec == EngineInit /\ [][EngineNext]_vars

----------------------------------------------------------------------------
(* Spec: main_game.run_game(p1, p2, num_games, board_type) with the three  *)
(* kinds of player.  p1 was created with player_no 1 and p2 with 2         *)
(* (create_player).                                                        *)

Kinds == {"Random", "Human", "Learned"}

\* the integers a human may type at the prompt
TypedInputs == -1..14

\* decisions are explored up to this many per run
StepCap(type) == IF type = "fast" THEN MaxStepsFast ELSE MaxSteps

Init ==
    /\ board_type \in BoardTypes
    /\ players \in Kinds \X Kinds
    /\ board = NoBoard
    /\ to_move = 0
    /\ move_no = 0
    /\ done = FALSE
    /\ game_no = 0
    /\ scores = << >>
    /\ steps = 0
    /\ pc = "start"
    /\ last = NoCall
    /\ decision = -1
    /\ parsed = NoBoard
    /\ NoDecision
    /\ NoProbe
    /\ NoAgent
    /\ epsilons = [k \in 1..2 |-> IF players[k] = "Learned"
                                  THEN SeatCfg.e_min ELSE -1]

\* top of the for-loop body: a fresh board, player 1 to move
StartGame ==
    /\ pc = "start"
    /\ game_no < NumGames
    /\ game_no' = game_no + 1
    /\ board' = gen_new_board(board_type)
    /\ done' = FALSE
    /\ to_move' = 1
    /\ move_no' = 0
    /\ pc' = "await"
    /\ as_list' = FALSE
    /\ UNCHANGED <<use_random, engine_calls, probeVars, agentVars>>
    /\ UNCHANGED learnVars
    /\ UNCHANGED <<scores, players, board_type, steps, last, decision, parsed>>

\* variant of Played that asks for another decision whatever was returned
PlayedOn(new_board, d, new_to_move, is_over, call, random, calls, list) ==
    /\ board' = new_board
    /\ decision' = d
    /\ to_move' = new_to_move
    /\ done' = is_over
    /\ move_no' = move_no + 1
    /\ steps' = steps + 1
    /\ last' = call
    /\ pc' = "await"
    /\ use_random' = random
    /\ engine_calls' = calls
    /\ as_list' = list
    /\ report' = [new_board |-> new_board, decision |-> d,
                  next_player |-> new_to_move, done |-> is_over]
    /\ UNCHANGED <<rewards, flipped, agentVars>>
    /\ UNCHANGED learnVars
    /\ UNCHANGED <<game_no, scores, players, board_type, parsed>>

\* one pass of the while-loop body, given what the player's move() returned
Played(new_board, d, new_to_move, is_over, call, random, calls, list) ==
    /\ board' = new_board
    /\ decision' = d
    /\ to_move' = new_to_move
    /\ done' = is_over
    /\ move_no' = move_no + 1
    /\ steps' = steps + 1
    /\ last' = call
    /\ pc' = IF is_over THEN "over" ELSE "await"
    /\ use_random' = random
    /\ engine_calls' = calls
    /\ as_list' = list
    /\ report' = [new_board |-> new_board, decision |-> d,
                  next_player |-> new_to_move, done |-> is_over]
    /\ UNCHANGED <<rewards, flipped, agentVars>>
    /\ UNCHANGED learnVars
    /\ UNCHANGED <<game_no, scores, players, board_type, parsed>>

\* variant of RandomDecisions without the resampling of empty plots
RandomDecisionsAny(b, no) == player_range(no)

\* RandomPlayer.move: the plots the resampling loop can end on
RandomDecisions(b, no) == {d \in player_range(no) : b[d] # 0}

\* HumanPlayer.move: the typed integers the validation loop accepts
HumanDecisions(b, no) ==
    {d \in TypedInputs : d \in player_range(no) /\ b[d] # 0}

RandomMove ==
    /\ pc = "await"
    /\ steps < StepCap(board_type)
    /\ players[to_move] = "Random"
    /\ \E d \in RandomDecisions(board, to_move) :
          LET m == move(board, to_move, d)
          IN  Played(m.new_board, d, m.new_player, game_over(m.new_board), m,
                     FALSE, {EngineCall(m)}, as_list)

HumanMove ==
    /\ pc = "await"
    /\ steps < StepCap(board_type)
    /\ players[to_move] = "Human"
    /\ \E d \in HumanDecisions(board, to_move) :
          LET m == move(board, to_move, d)
          IN  Played(m.new_board, d, m.new_player, game_over(m.new_board), m,
                     FALSE, {EngineCall(m)}, as_list)

\* variant of LearnedDecisions without the resampling of empty plots
LearnedDecisionsAny(b, random) == 0..5

\* ReinforcementPlayer.move: the canonical plots it can decide on; the greedy
\* plot is the estimator's arg-max (any of 0..5), the random one is resampled
\* until it is not empty
LearnedDecisions(b, random) ==
    IF random THEN {d \in 0..5 : b[d] # 0} ELSE 0..5

\* the calls of gameplay.move in ReinforcementPlayer.move: _greedy_action and
\* the random branch evaluate _reward, which moves from each of the six
\* plots; then the decided move is made
LearnedCalls(b, random, d) ==
    {[player |-> 1, start |-> i, seeds |-> b[i]] : i \in 0..5}
    \cup {[player |-> 1, start |-> d, seeds |-> b[d]]}

LearnedMove ==
    /\ pc = "await"
    /\ steps < StepCap(board_type)
    /\ players[to_move] = "Learned"
    /\ LET me == to_move
           b == IF me = 2 THEN flip_board(board) ELSE board
       IN  \E random \in BOOLEAN :
           /\ random => epsilons[me] > 0
           /\ ~random => epsilons[me] < 1000
           /\ \E d \in LearnedDecisions(b, random) :
              \E st \in {LearnedStep(board, as_list, me, d,
                                      DefaultInvalidReward)} :
                  Played(st.new_board, st.decision, st.next_player, st.done,
                         st.call, random, LearnedCalls(b, random, d), me = 1)

\* variant of FinishGame that skips the calls of update_epsilon
FinishGameNoDecay ==
    /\ pc = "over"
    /\ scores' = Append(scores, calc_final_score(board))
    /\ pc' = "start"
    /\ UNCHANGED <<decays, epsilons>>
    /\ UNCHANGED <<player_no, cfg, memory_buffer, time, epsilon, learn_steps,
                   appended, q_network, target_q_network, sample_pool>>
    /\ UNCHANGED <<decVars, probeVars>>
    /\ UNCHANGED <<board, to_move, move_no, done, game_no, players,
                   board_type, steps, last, decision, parsed>>

\* after the while-loop: the final score is appended to scores
FinishGame ==
    /\ pc = "over"
    /\ scores' = Append(scores, calc_final_score(board))
    /\ decays' = decays + Cardinality({k \in 1..2 : players[k] = "Learned"})
    /\ pc' = "start"
    /\ epsilons' = [k \in 1..2 |-> IF players[k] = "Learned"
                                   THEN update_epsilon(epsilons[k], SeatCfg)
                                   ELSE epsilons[k]]
    /\ UNCHANGED <<player_no, cfg, memory_buffer, time, epsilon, learn_steps,
                   appended, q_network, target_q_network, sample_pool>>
    /\ UNCHANGED <<decVars, probeVars>>
    /\ UNCHANGED <<board, to_move, move_no, done, game_no, players,
                   board_type, steps, last, decision, parsed>>

\* the for-loop is exhausted: run_game returns scores
Return ==
    /\ pc = "start"
    /\ game_no = NumGames
    /\ pc' = "returned"
    /\ UNCHANGED <<decVars, probeVars, agentVars>>
    /\ UNCHANGED learnVars
    /\ UNCHANGED <<board, to_move, move_no, done, game_no, scores, players,
                   board_type, steps, last, decision, parsed>>

Next ==
    \/ StartGame
    \/ RandomMove
    \/ HumanMove
    \/ LearnedMove
    \/ FinishGame
    \/ Return

Spec == Init /\ [][Next]_vars

(***************************************************************************)
(* One ReinforcementPlayer, asked to move and to decay its epsilon.        *)
(***************************************************************************)

\* the board the agent is asked to move on: both sides have an empty plot
\* and the same seeds, so it serves either seat
AgentBoard == FromTuple(<<0, 4, 4, 4, 4, 1, 0, 0, 4, 4, 4, 4, 1, 0>>)

\* epsilon, e_decay, e_min in thousandths: the defaults, and an agent built
\* below its floor with a fast decay
EpsilonSchedules == {<<1000, 995, 10>>, <<0, 500, 10>>}

\* the keyword arguments of __init__
AgentConfigs ==
    {[buffer_size |-> BufferSize, steps_per_update |-> u,
      minibatch_size |-> MinibatchSize,
      epsilon |-> e[1], e_decay |-> e[2], e_min |-> e[3],
      invalid_reward |-> DefaultInvalidReward, tau |-> DefaultTau] :
        u \in {1, StepsPerUpdate}, e \in EpsilonSchedules}

\* ReinforcementPlayer(player_no, **kwargs)
AgentInit ==
    /\ player_no \in {1, 2}
    /\ cfg \in AgentConfigs
    /\ memory_buffer = << >>
    /\ time = 0
    /\ epsilon = cfg.epsilon
    /\ learn_steps = 0
    /\ appended = 0
    /\ decays = 0
    /\ pc = "agent"
    /\ board = NoBoard
    /\ last = NoCall
    /\ to_move = 0
    /\ move_no = 0
    /\ done = FALSE
    /\ game_no = 0
    /\ scores = << >>
    /\ players = <<"none", "none">>
    /\ board_type = "none"
    /\ steps = 0
    /\ decision = -1
    /\ parsed = NoBoard
    /\ NoDecision
    /\ NoProbe
    /\ NoSeats
    /\ q_network = 0
    /\ target_q_network = q_network
    /\ sample_pool = {}

\* variant of SamplePool that samples before the append
SamplePoolBefore(buf) == {buf[k].n : k \in 1..Len(buf) - 1}

\* random.sample(self.memory_buffer, ...): the transitions it can draw
SamplePool(buf) == {buf[k].n : k \in 1..Len(buf)}

\* whether the board the agent works on is a Python list: a player 2 rolls
\* what it is given into an array
GivenAsList(no) == IF no = 1 THEN BOOLEAN ELSE {FALSE}

\* the tuple appended to memory_buffer; n counts the appends
Transition(st, n) ==
    [state |-> st.state, action |-> st.action, reward |-> st.reward,
     next_state |-> st.next_state, done |-> st.done, n |-> n]

\* ReinforcementPlayer.move(board): random.random() >= epsilon takes the
\* greedy branch
AgentMove ==
    /\ time < MaxTime
    /\ \E list \in GivenAsList(player_no), random \in BOOLEAN :
          /\ random => epsilon > 0
          /\ ~random => epsilon < 1000
          /\ LET b == IF player_no = 2 THEN flip_board(AgentBoard)
                      ELSE AgentBoard
             IN  \E d \in LearnedDecisions(b, random) :
                    \E st \in {LearnedStep(AgentBoard, list, player_no, d,
                                            cfg.invalid_reward)} :
                    \E buf \in {DequeAppend(memory_buffer,
                                             Transition(st, appended + 1),
                                             cfg.buffer_size)} :
                        /\ board' = AgentBoard
                        /\ as_list' = list
                        /\ use_random' = random
                        /\ engine_calls' = LearnedCalls(b, random, d)
                        /\ last' = st.call
                        /\ decision' = st.decision
                        /\ report' = Reported(st)
                        /\ memory_buffer' = buf
                        /\ appended' = appended + 1
                        /\ IF LearnDue(time, Len(buf), cfg)
                           THEN /\ learn_steps' = learn_steps + 1
                                /\ sample_pool' = SamplePool(buf)
                                /\ \E g \in Gradients :
                                      /\ q_network' = q_network + g
                                      /\ target_q_network' =
                                            soft_update(q_network + g,
                                                        target_q_network,
                                                        cfg.tau)
                           ELSE /\ learn_steps' = learn_steps
                                /\ sample_pool' = {}
                                /\ UNCHANGED <<q_network, target_q_network>>
                        /\ time' = time + 1
    /\ pc' = "move"
    /\ UNCHANGED <<player_no, cfg, epsilon, decays, rewards, flipped,
                   epsilons>>
    /\ UNCHANGED <<to_move, move_no, done, game_no, scores, players,
                   board_type, steps, parsed>>

\* ReinforcementPlayer.update_epsilon()
AgentUpdateEpsilon ==
    /\ decays < MaxDecays
    /\ epsilon' = update_epsilon(epsilon, cfg)
    /\ decays' = decays + 1
    /\ pc' = "update_epsilon"
    /\ UNCHANGED <<player_no, cfg, memory_buffer, time, learn_steps, appended>>
    /\ UNCHANGED <<decVars, probeVars, learnVars>>
    /\ UNCHANGED <<board, to_move, move_no, done, game_no, scores, players,
                   board_type, steps, last, decision, parsed>>

\* main_game.load_weights(filename, player), as create_player calls it on
\* the agent it has just constructed (reset_epsilon is left False):
\* set_weights writes the loaded weights into both estimators
AgentLoadWeights ==
    /\ time = 0
    /\ decays = 0
    /\ pc = "agent"
    /\ q_network' = LoadedWeights
    /\ target_q_network' = LoadedWeights
    /\ epsilon' = cfg.e_min
    /\ pc' = "load_weights"
    /\ UNCHANGED <<player_no, cfg, memory_buffer, time, learn_steps, appended,
                   decays, sample_pool, epsilons>>
    /\ UNCHANGED <<decVars, probeVars>>
    /\ UNCHANGED <<board, to_move, move_no, done, game_no, scores, players,
                   board_type, steps, last, decision, parsed>>

AgentNext ==
    \/ AgentMove
    \/ AgentUpdateEpsilon
    \/ AgentLoadWeights

AgentSpec == AgentInit /\ [][AgentNext]_vars

----------------------------------------------------------------------------
(* Claims about the engine functions (EngineSpec) *)

Moved == pc = "move" /\ ~last.raised

OwnStore(player) == IF player = 1 THEN 6 ELSE 13

OwnPlots(player) == IF player = 1 THEN 0..5 ELSE 7..12

Total(b) == b[0] + b[1] + b[2] + b[3] + b[4] + b[5] + b[6] + b[7]
            + b[8] + b[9] + b[10] + b[11] + b[12] + b[13]

\* C1: the board move returns holds as many seeds as the board it was given,
\* for every input board, player 1 or 2 and start in 0..12 other than 6
C1_SeedConservation ==
    Moved => Total(last.new_board) = Total(last.board)

\* a move that sowed at least one full lap and ended in a capture
C1_Witness ==
    /\ Moved
    /\ last.seeds >= 13
    /\ last.new_board # last.sown

\* C2 (as claimed): a move by player 1 from 0..5 leaves board[13] unchanged
\* and a move by player 2 from 7..12 leaves board[6] unchanged, however many
\* seeds are sown
C2_OpponentStoreUntouched ==
    Moved =>
       /\ (last.player = 1 /\ last.start \in 0..5
              => last.new_board[13] = last.board[13])
       /\ (last.player = 2 /\ last.start \in 7..12
              => last.new_board[6] = last.board[6])

\* C3: move returns the mover as next player exactly when the last sown seed
\* landed in the mover's own store, and the opponent otherwise; from the
\* standard board, player 1 moving from plot 2 gets store 6 = 1 and the turn
C3_ExtraTurn ==
    Moved =>
       /\ (last.new_player = last.player <=> last.landed = OwnStore(last.player))
       /\ (last.new_player # last.player => last.new_player = 3 - last.player)
       /\ (last.board = gen_new_board("new") /\ last.player = 1 /\ last.start = 2
              => last.new_board[6] = 1 /\ last.new_player = 1)

\* an extra turn earned by a sowing that went round past the opponent's store
C3_Witness ==
    /\ Moved
    /\ last.new_player = last.player
    /\ last.seeds > 13

\* the standard-board example of the extra turn
C3_WitnessExample ==
    /\ Moved
    /\ last.board = gen_new_board("new") /\ last.player = 1 /\ last.start = 2

CaptureCase(m) ==
    /\ m.landed \in OwnPlots(m.player)
    /\ m.sown[m.landed] = 1
    /\ m.sown[12 - m.landed] >= 1

Captured(m) ==
    [i \in Idx |->
        IF i = OwnStore(m.player)
        THEN m.sown[i] + m.sown[12 - m.landed] + 1
        ELSE IF i = m.landed \/ i = 12 - m.landed THEN 0 ELSE m.sown[i]]

\* C4: after the sowing a capture happens exactly when the last seed landed in
\* one of the mover's own plots, which then holds 1 seed, and the opposite plot
\* holds at least 1: the store gains the opposite seeds plus the landing seed
\* and both plots are emptied; otherwise the result is the sown board.  On
\* the example board player 1 moving from plot 1 captures 5 seeds.
C4_CaptureRule ==
    Moved =>
       /\ (CaptureCase(last) => last.new_board = Captured(last))
       /\ (~CaptureCase(last) => last.new_board = last.sown)
       /\ (last.board = CaptureBoard /\ last.player = 1 /\ last.start = 1
              => /\ last.new_board[6] = 5
                 /\ last.new_board[5] = 0
                 /\ last.new_board[7] = 0)

\* the capture example has been played
C4_Witness ==
    /\ Moved
    /\ last.board = CaptureBoard /\ last.player = 1 /\ last.start = 1
    /\ CaptureCase(last)

\* a last seed on an own empty plot whose opposite plot is empty: no capture
C4_WitnessNoCapture ==
    /\ Moved
    /\ last.landed \in OwnPlots(last.player)
    /\ last.sown[last.landed] = 1
    /\ last.sown[12 - last.landed] = 0

\* C5: a move from an empty plot returns the input board unchanged and passes
\* the turn to the opponent
C5_EmptySourceNoOp ==
    Moved /\ last.board[last.start] = 0 =>
       /\ last.new_board = last.board
       /\ last.new_player = 3 - last.player

\* a move from an empty plot next to the mover's store, opposite plot filled
C5_Witness ==
    /\ Moved
    /\ last.board[last.start] = 0
    /\ last.start = OwnStore(last.player) - 1
    /\ last.board[12 - last.start] > 0

\* C6 (as claimed): text_to_board gives back the board display printed
C6_RoundTrip ==
    pc = "text_to_board" => parsed = board

\* C9: game_over is true exactly when plots 0..5 hold no seed or plots 7..12
\* hold no seed, whatever the stores hold; it is false for the standard board
C9_GameOver ==
    pc = "game_over" =>
       /\ done <=> (board[0] + board[1] + board[2] + board[3] + board[4] + board[5] = 0
                    \/ board[7] + board[8] + board[9] + board[10] + board[11] + board[12] = 0)
       /\ \A s6, s13 \in {0, 1, MaxSeeds} :
             game_over([board EXCEPT ![6] = s6, ![13] = s13]) = done
       /\ (board = gen_new_board("new") => ~done)

\* game_over answered true for a board with one side empty, the other not
C9_Witness ==
    /\ pc = "game_over"
    /\ done
    /\ board[0] + board[1] + board[2] + board[3] + board[4] + board[5] > 0

\* C10: calc_final_score returns (sum of 0..6, sum of 7..13) and leaves the
\* board as it was
C10_FinalScore ==
    [][pc' = "calc_final_score" =>
          /\ scores' = << <<board[0] + board[1] + board[2] + board[3] + board[4]
                              + board[5] + board[6],
                            board[7] + board[8] + board[9] + board[10] + board[11]
                              + board[12] + board[13]>> >>
          /\ board' = board]_vars

\* a final score that credits seeds still lying in the plots of both sides
C10_Witness ==
    /\ pc = "calc_final_score"
    /\ scores[1][1] > board[6]
    /\ scores[1][2] > board[13]

----------------------------------------------------------------------------
(* Claims about games (Spec) *)

\* seeds of each starting layout
LayoutSeeds(type) ==
    IF type = "new" THEN 48 ELSE IF type = "fast" THEN 12 ELSE 45

InGame == pc \in {"await", "over"}

NoLearned == players[1] # "Learned" /\ players[2] # "Learned"

\* seeds weighted by how far they have advanced along their side
Advance(b) ==
    1 * b[0] + 2 * b[1] + 3 * b[2] + 4 * b[3] + 5 * b[4] + 6 * b[5]
    + 1 * b[7] + 2 * b[8] + 3 * b[9] + 4 * b[10] + 5 * b[11] + 6 * b[12]

\* a natural number that bounds the number of moves still possible: seeds
\* outside the stores first, their advance second
Rank(b) ==
    (Total(b) - b[6] - b[13]) * (6 * Total(b) + 1) + (6 * Total(b) - Advance(b))

C8_GameConservation ==
    /\ (InGame => Total(board) = LayoutSeeds(board_type))
    /\ \A k \in 1..Len(scores) :
          scores[k][1] + scores[k][2] = LayoutSeeds(board_type)

\* a game with a Learned player 2 has been played to its end and scored
C8_Witness ==
    /\ players[2] = "Learned"
    /\ Len(scores) = 1
    /\ last.player = 1
    /\ decision >= 7

----------------------------------------------------------------------------
(* Claims C11.. *)

\* C11: move raises, returning no board and leaving the board it was given
\* as it was, exactly when start is 6, 13, negative or above 12, or player
\* is neither 1 nor 2; for every other (player, start) it returns a board
C11_InvalidMove ==
    [][pc' = "move" =>
          /\ board' = board
          /\ last'.board = board
          /\ last'.raised <=> \/ last'.start \in {6, 13}
                              \/ last'.start < 0
                              \/ last'.start > 12
                              \/ last'.player \notin {1, 2}
          /\ (last'.raised => last'.new_board = NoBoard)
          /\ (~last'.raised => DOMAIN last'.new_board = 0..13)]_vars

\* move was called on store 13 by a valid player and raised
C11_Witness ==
    /\ pc = "move"
    /\ last.raised
    /\ last.start = 13
    /\ last.player \in {1, 2}


\* C12: the replay buffer never holds more than buffer_size transitions, and
\* it holds exactly the latest ones, in the order they were appended: the
\* oldest transition is the one dropped when a new one arrives at a full buffer
C12_BoundedFifo ==
    /\ Len(memory_buffer) <= cfg.buffer_size
    /\ Len(memory_buffer) = IF appended <= cfg.buffer_size THEN appended
                            ELSE cfg.buffer_size
    /\ \A k \in 1..Len(memory_buffer) :
          memory_buffer[k].n = appended - Len(memory_buffer) + k

\* a transition was appended to a full buffer
C12_Witness ==
    /\ cfg.buffer_size > 0
    /\ appended > cfg.buffer_size
    /\ Len(memory_buffer) = cfg.buffer_size
    /\ memory_buffer[1].n = appended - cfg.buffer_size + 1

\* C13: after any call of update_epsilon, epsilon is not below e_min
C13_EpsilonFloor ==
    [][pc' = "update_epsilon" => epsilon' >= cfg.e_min]_vars

\* update_epsilon lifted an epsilon that was below e_min, and one that decayed
\* beneath it
C13_Witness ==
    /\ pc = "update_epsilon"
    /\ epsilon = cfg.e_min
    /\ update_epsilon_nofloor(cfg.epsilon, cfg) < cfg.e_min


\* C20: the decision that makes the lifetime count n runs a learning step if
\* and only if n is a multiple of steps_per_update and the buffer, with this
\* decision's transition appended, holds more than minibatch_size transitions;
\* a decision runs at most one learning step, and n counts every decision
C20_LearnTiming ==
    [][pc' = "move" =>
          /\ time' = time + 1
          /\ appended' = time'
          /\ learn_steps' \in {learn_steps, learn_steps + 1}
          /\ learn_steps' = learn_steps + 1 <=>
                /\ time' % cfg.steps_per_update = 0
                /\ Len(memory_buffer') > cfg.minibatch_size]_vars

\* the second decision of an agent that learns every second decision ran a
\* learning step
C20_Witness ==
    /\ pc = "move"
    /\ cfg.steps_per_update = 2
    /\ time = 2
    /\ learn_steps = 1
    /\ Len(memory_buffer) > cfg.minibatch_size

\* a decision whose count is a multiple of steps_per_update ran no learning
\* step, the buffer being too short
C20_WitnessShortBuffer ==
    /\ pc = "move"
    /\ cfg.steps_per_update = 1
    /\ time = 1
    /\ learn_steps = 0


\* C14: flipping a board twice gives the board back, and the flipped board
\* has player 2's plots 7..12 at 0..5 and store 13 at 6
C14_FlipInvolution ==
    pc = "flip_board" =>
       /\ flip_board(flipped) = board
       /\ \A i \in 0..6 : flipped[i] = board[i + 7]

\* a board whose two sides differ was flipped
C14_Witness ==
    /\ pc = "flip_board"
    /\ flipped # board
    /\ board[13] # board[6]
    /\ \E i \in 0..5 : board[i] # board[i + 7]

\* C18: the reward of plot i on a canonical board: the invalid-action penalty
\* if the plot is empty, else 2 if the engine gives player 1 another turn,
\* else the increase of store 6
RewardReference(b, i) ==
    IF b[i] = 0 THEN DefaultInvalidReward
    ELSE IF move(b, 1, i).new_player = 1 THEN 2
    ELSE move(b, 1, i).new_board[6] - b[6]

\* C18: _reward gives every plot of every canonical board its reference reward
C18_RewardReference ==
    pc = "_reward" => \A i \in 0..5 : rewards[i] = RewardReference(board, i)

\* C18 on numpy arrays only: fails too, by a plot whose sowing ends in store 6
\* on its second lap
C18_RewardReferenceArray ==
    pc = "_reward" /\ ~as_list =>
       \A i \in 0..5 : rewards[i] = RewardReference(board, i)

\* C19: what a Learned player 2 reports is what the engine gives for player 2
\* moving from the reported plot
C19_LearnedAsEngine ==
    pc = "learned_move" /\ player_no = 2 =>
       LET m == move(board, 2, decision)
       IN  report = [new_board |-> m.new_board, decision |-> decision,
                     next_player |-> m.new_player,
                     done |-> game_over(m.new_board)]


\* the kind of the player asked for the decision of this step
MoverKind == players[to_move]

\* a decision of the Random policy, the Interactive policy, or the random
\* branch of the Learned policy was taken in this step
GuardedDecision ==
    /\ move_no' = move_no + 1
    /\ MoverKind \in {"Random", "Human"} \/ use_random'

\* C15 as stated: such a decision sows from a non-empty plot of the mover's
\* half, and no call of the engine it makes is for a store or an empty plot
C15_NoCallOnEmpty ==
    [][GuardedDecision =>
          /\ decision' \in OwnPlots(to_move)
          /\ board[decision'] > 0
          /\ \A c \in engine_calls' : c.start \notin {6, 13} /\ c.seeds > 0]_vars

\* C15: such a decision sows from a non-empty plot of the mover's half, the
\* engine accepts it, and no call is for a store; the Random and Interactive
\* policies make that one call only, the Learned policy also moves from each
\* of the six canonical plots, empty or not, to compute the rewards
C15_PlayedMoveLegal ==
    [][GuardedDecision =>
          /\ decision' \in OwnPlots(to_move)
          /\ board[decision'] > 0
          /\ ~last'.raised
          /\ last'.seeds > 0
          /\ \A c \in engine_calls' : c.start \notin {6, 13}
          /\ EngineCall(last') \in engine_calls'
          /\ MoverKind # "Learned" =>
                /\ engine_calls' = {EngineCall(last')}
                /\ last'.board = board
                /\ last'.player = to_move
                /\ last'.start = decision'
          /\ MoverKind = "Learned" =>
                /\ last'.player = 1
                /\ last'.start = IF to_move = 2 THEN decision' - 7 ELSE decision'
                /\ engine_calls' =
                      {[player |-> 1, start |-> i, seeds |-> last'.board[i]] :
                          i \in 0..5}]_vars

\* the random branch of a Learned player sowed from a non-empty plot after
\* the rewards were computed on a board with an empty plot
C15_Witness ==
    /\ pc = "await"
    /\ use_random
    /\ last.seeds > 0
    /\ \E c \in engine_calls : c.seeds = 0

\* C16: a game starts with player 1 to move on the generated board; after a
\* decision the board and the mover are the returned ones and another
\* decision is awaited exactly if the returned board is not terminal; a score
\* is appended only for a terminal board, once per game
C16_GameLoop ==
    /\ [][/\ pc = "start" /\ pc' = "await" =>
                /\ board' = gen_new_board(board_type)
                /\ to_move' = 1
                /\ move_no' = 0
                /\ game_no' = game_no + 1
                /\ scores' = scores
          /\ move_no' = move_no + 1 =>
                /\ pc = "await"
                /\ board' = report'.new_board
                /\ to_move' = report'.next_player
                /\ report'.next_player \in {1, 2}
                /\ pc' = "await" <=> ~game_over(report'.new_board)
                /\ pc' = "over" <=> game_over(report'.new_board)
                /\ scores' = scores
          /\ scores' # scores =>
                /\ pc = "over"
                /\ game_over(board)
                /\ scores' = Append(scores, calc_final_score(board))
                /\ pc' = "start"]_vars
    /\ [](Len(scores) = IF pc \in {"await", "over"} THEN game_no - 1
                        ELSE game_no)

\* a game ran from its first decision to its score
C16_Witness ==
    /\ pc \in {"start", "returned"}
    /\ game_no >= 1
    /\ Len(scores) = game_no
    /\ move_no >= 1
    /\ game_over(board)

\* C17: whenever a decision is awaited the mover has a non-empty plot in its
\* own half, whichever kinds of player play
C17_MoverCanMove ==
    pc = "await" => \E d \in OwnPlots(to_move) : board[d] > 0

\* a decision is awaited after an extra turn
C17_Witness ==
    /\ pc = "await"
    /\ move_no >= 1
    /\ report.next_player = to_move
    /\ decision \in OwnPlots(to_move)

\* a decision is awaited after a capture
C17_WitnessCapture ==
    /\ pc = "await"
    /\ move_no >= 1
    /\ last.stop \in 0..5
    /\ last.landed = last.stop
    /\ last.sown[last.stop] = 1
    /\ last.new_board[last.stop] = 0


\* C21: a decision appends one transition, its own, at the end of the buffer
\* and leaves the transitions that stay as they were and in their order; the
\* learning step of that decision samples from a buffer that holds it; no
\* other operation touches the buffer
C21_AppendPerDecision ==
    [][/\ pc' = "move" =>
             LET new == memory_buffer'
                 kept == Len(new) - 1
             IN  /\ appended' = appended + 1
                 /\ Len(new) >= 1
                 /\ new[Len(new)].n = appended'
                 /\ new[Len(new)].action = last'.start
                 /\ kept <= Len(memory_buffer)
                 /\ \A k \in 1..kept :
                       new[k] = memory_buffer[Len(memory_buffer) - kept + k]
                 /\ \A k \in 1..kept : new[k].n < new[k + 1].n
                 /\ learn_steps' # learn_steps => appended' \in sample_pool'
       /\ pc' # "move" =>
             /\ memory_buffer' = memory_buffer
             /\ appended' = appended]_vars

\* a decision appended its transition behind an earlier one and then ran a
\* learning step
C21_Witness ==
    /\ pc = "move"
    /\ Len(memory_buffer) >= 2
    /\ memory_buffer[Len(memory_buffer)].n = appended
    /\ learn_steps >= 1
    /\ appended \in sample_pool


\* C22: every transition in the buffer has an action in 0..5, the canonical
\* board the agent decided on, the engine's result of moving from the action
\* as player 1, the reference reward of the action, and game_over of the
\* result
C22_TransitionConsistent ==
    \A k \in 1..Len(memory_buffer) :
       LET t == memory_buffer[k]
           m == move(t.state, 1, t.action)
       IN  /\ t.action \in 0..5
           /\ t.state = IF player_no = 2 THEN flip_board(AgentBoard)
                        ELSE AgentBoard
           /\ t.next_state = m.new_board
           /\ t.reward = RewardReference(t.state, t.action)
           /\ t.done = game_over(t.next_state)


\* C25: a greedy decision on an empty plot is accepted: the engine does not
\* raise, the reported board is the given board, the opponent moves next, the
\* decision counter advances by one, and the one transition recorded carries
\* the invalid-action penalty
C25_GreedyEmptyPlot ==
    [][pc' = "move" /\ ~use_random' /\ last'.seeds = 0 =>
          LET t == memory_buffer'[Len(memory_buffer')]
          IN  /\ ~last'.raised
              /\ report'.new_board = board'
              /\ report'.next_player = 3 - player_no
              /\ ~report'.done
              /\ time' = time + 1
              /\ appended' = appended + 1
              /\ t.n = appended'
              /\ t.next_state = t.state
              /\ t.reward = cfg.invalid_reward]_vars


\* C24 as stated: the target weights change only in a decision that runs a
\* learning step
C24_TargetOnlySoftUpdate ==
    [][target_q_network' # target_q_network =>
          /\ pc' = "move"
          /\ learn_steps' = learn_steps + 1]_vars

\* C24: the target weights equal the online weights at construction; a
\* learning step moves them to tau * online + (1 - tau) * target, with the
\* online weights it has just updated; load_weights, through set_weights,
\* writes the loaded weights into both estimators; nothing else writes either
C24_TargetWrites ==
    /\ [](pc = "agent" => target_q_network = q_network)
    /\ [][/\ learn_steps' # learn_steps =>
                /\ pc' = "move"
                /\ 1000 * target_q_network' <=
                      cfg.tau * q_network'
                      + (1000 - cfg.tau) * target_q_network
                /\ 1000 * (target_q_network' + 1) >
                      cfg.tau * q_network'
                      + (1000 - cfg.tau) * target_q_network
          /\ pc' = "load_weights" =>
                /\ q_network' = LoadedWeights
                /\ target_q_network' = q_network'
          /\ learn_steps' = learn_steps /\ pc' # "load_weights" =>
                /\ q_network' = q_network
                /\ target_q_network' = target_q_network]_vars

\* an agent with loaded weights has run a learning step: its target weights
\* left the loaded ones and lag behind the online ones
C24_Witness ==
    /\ pc = "move"
    /\ learn_steps >= 1
    /\ q_network > LoadedWeights
    /\ target_q_network > LoadedWeights
    /\ target_q_network < q_network


\* the Learned players of the run
LearnedSeats == {k \in 1..2 : players[k] = "Learned"}

StallCycle ==
    /\ move_no >= 1
    /\ last.seeds = 0
    /\ report.new_board = board
    /\ move_no' = move_no + 1
    /\ last'.seeds = 0
    /\ board' = board
    /\ to_move' = 3 - to_move

\* C26: in a game with a Learned player no two decisions in a row leave the
\* board unchanged, so play cannot go round a cycle of such decisions
C26_NoStallCycle ==
    [][~NoLearned => ~StallCycle]_vars

\* C26 for games with exactly one Learned player: holds, the other player
\* always sows
C26_NoStallOneLearned ==
    [][Cardinality(LearnedSeats) = 1 => ~StallCycle]_vars


\* C27: a move lowers neither store, and a move from a non-empty plot that
\* does not raise the mover's store leaves both stores as they were; so it is
\* for the engine called by a Random or Interactive player and for the board
\* a Learned player of either seat reports
C27_StoresMonotone ==
    /\ Moved =>
          /\ last.new_board[6] >= last.board[6]
          /\ last.new_board[13] >= last.board[13]
          /\ (/\ last.seeds > 0
              /\ last.new_board[OwnStore(last.player)]
                    = last.board[OwnStore(last.player)])
             => /\ last.new_board[6] = last.board[6]
                /\ last.new_board[13] = last.board[13]
    /\ pc = "learned_move" =>
          /\ report.new_board[6] >= board[6]
          /\ report.new_board[13] >= board[13]
          /\ (/\ last.seeds > 0
              /\ report.new_board[OwnStore(player_no)]
                    = board[OwnStore(player_no)])
             => /\ report.new_board[6] = board[6]
                /\ report.new_board[13] = board[13]

\* a move from a non-empty plot that raised no store
C27_Witness ==
    /\ Moved
    /\ last.seeds > 0
    /\ last.new_board[6] = last.board[6]
    /\ last.new_board[13] = last.board[13]
    /\ last.new_board # last.board

\* a capture by player 2 raised store 13 and left store 6 as it was
C27_WitnessCapture ==
    /\ Moved
    /\ last.player = 2
    /\ last.stop \in 7..12
    /\ last.new_board[13] > last.board[13] + 1
    /\ last.new_board[6] = last.board[6]

====
